---- MODULE Spec2Model ----
(***************************************************************************)
(* Model of the signal-action lifecycle controller (createBaseAction, in   *)
(* its two source variants) and of GlobalHttpTracker.                      *)
(*                                                                         *)
(* One controller is modelled together with the tracker it injects.  The   *)
(* JavaScript event loop is explicit: a synchronous caller turn (inTurn),  *)
(* the microtask queue, the setTimeout(0) queue, the debounceTime timer    *)
(* and the producers' settlements, which arrive as separate tasks (a       *)
(* producer yields its one outcome asynchronously).  Timers are exact:     *)
(* time does not pass a timer that is due; tasks that are ready at the     *)
(* same instant run in any order.                                          *)
(***************************************************************************)
EXTENDS Integers, Sequences, FiniteSets

\* ------------------------------------------------------------------ bounds
MaxRuns == 2          \* run calls per behaviour
MaxTime == 4          \* the clock stops here
DebounceMs == 2       \* the value of options.debounceMs when it is set
MaxRegs == 2          \* callbacks registered on handles per behaviour
MaxIds == 2           \* ids the tracker is called with directly
MaxCalls == 4         \* direct calls of the tracker per behaviour

\* Arguments, values and failures are opaque to the controller: each run call
\* passes an argument of its own, and each sub-producer has a value of its own
\* to yield and a failure of its own to raise.
ArgOf(i) == <<"arg", i>>

ValueOf(n) == IF n = "a" THEN "v1" ELSE "v2"

\* ------------------------------------------------------------- value model
\* Every error-typed value (signal contents, callback payloads) is a record.
Null == [t |-> "null"]
Str(s) == [t |-> "string", s |-> s]

\* Failure values a producer can raise: [name, top, nested]; top is err.error
\* when that is a string and "-" otherwise, nested is err.error.error when
\* that is a string and "-" otherwise.
ErrorOf(n) ==
    IF n = "a"
    THEN [t |-> "object", name |-> "HttpErrorResponse", top |-> "e1", nested |-> "-"]
    ELSE [t |-> "object", name |-> "HttpErrorResponse", top |-> "-", nested |-> "e2"]

Runs == 1..MaxRuns
Recs == 0..MaxRuns
Kinds == {"loading", "success", "error", "finally"}

VARIABLES
    impl,            \* 0: the variant of part_000, 1: the variant of part_001
    fork,            \* TRUE: built by createSignalForkJoinAction
    options,         \* [track, debounceMs]
    status, error,   \* the controller's signals
    currentSub,      \* immediate mode: the invocation currentSub belongs to, 0 = null
    switchInner,     \* debounced mode: the invocation switchMap's inner subscription belongs to
    currentHandlers, \* part_000: the record currentHandlers refers to
    handlerRecs,     \* the handler records: 0 is a record nobody registers on
    timers,          \* pending setTimeout(0) callbacks, in order
    debounce,        \* debounceTime: [armed, value, run, due]
    now,
    microtasks,      \* queued loading notifications
    inTurn,          \* user code is running synchronously
    turnRuns,        \* the handles returned to the running turn
    nRuns,
    phase, args, callTime, dispTime, dispRuns, pargs, hcap,
    psub, pout,      \* per invocation and sub-producer: subscription, outcome
    pending, lastError,   \* GlobalHttpTracker
    reg,             \* per handle and kind: how the callback was registered
    log              \* the callbacks invoked so far

ctrl == <<status, error, currentSub, switchInner, currentHandlers, handlerRecs>>
loop == <<timers, debounce, now, microtasks, inTurn, turnRuns>>
invs == <<nRuns, phase, args, callTime, dispTime, dispRuns, pargs, hcap, psub, pout>>
trk == <<pending, lastError>>
conf == <<impl, fork, options>>
vars == <<conf, ctrl, loop, invs, trk, reg, log>>

\* --------------------------------------------------------- GlobalHttpTracker
TrackerBegin(s, id) == s \cup {id}

\* A success that removes nothing.
TrackerSuccessKeeps(s, id) == s

TrackerSuccess(s, id) == s \ {id}

TrackerError(s, id) == s \ {id}

pendingCount == Cardinality(pending)

isAnyLoading == pendingCount > 0

\* ------------------------------------------------------------------ helpers
SubNames == IF fork THEN {"a", "b"} ELSE {"a"}

NoOut == [t |-> "none"]
Dropped == [t |-> "dropped"]
Outcomes(n) ==
    { [t |-> "next", v |-> ValueOf(n)] }
      \cup { [t |-> "error", e |-> ErrorOf(n)] }
      \cup { [t |-> "complete"] }

EmptyRec == [loading |-> 0, success |-> <<>>, error |-> 0, finally |-> 0]

\* The computed flags of the controller.
isLoading == status = "loading"

isSuccess == status = "success"

\* A flag that is true whenever the last invocation did not succeed.
isErrorWhenNotSuccess == status # "success"

isError == status = "error"

\* extractErrorMessage of part_001; err?.name is undefined for a failure value
\* that is not an object.
extractErrorMessage(err) ==
    IF err.t # "object" THEN Str("")
    ELSE IF err.name = "HttpErrorResponse" /\ err.top # "-" THEN Str(err.top)
    ELSE IF err.name = "HttpErrorResponse" /\ err.nested # "-" THEN Str(err.nested)
    ELSE Str("")

\* What the error branch records and hands to the error callbacks: part_000
\* passes the failure value on as it is, part_001 the extracted message.
ErrorMessage(err) == IF impl = 0 THEN err ELSE extractErrorMessage(err)

\* A combination that emits as soon as one sub-producer has yielded a value.
forkJoinPartial(po, n, o) ==
    IF o.t = "error" THEN o
    ELSE IF o.t = "complete" THEN o
    ELSE [t |-> "next",
          v |-> [m \in SubNames |-> IF po[m].t = "next" THEN po[m].v ELSE "undefined"]]

\* forkJoin over the sub-producers of one invocation, given their outcomes po
\* once sub-producer n has settled with o: a failure fails the whole at once,
\* a sub-producer that completes without a value completes the whole without
\* a value, and the object of all values is emitted when the last one arrives.
forkJoin(po, n, o) ==
    IF o.t = "error" THEN o
    ELSE IF o.t = "complete" THEN o
    ELSE IF \A m \in SubNames : po[m].t = "next"
         THEN [t |-> "next", v |-> [m \in SubNames |-> po[m].v]]
         ELSE NoOut

\* The producer the controller was built with: the function's own observable
\* (createSignalAction) or forkJoin of the named ones.
getObservable(po, n, o) == IF fork THEN forkJoin(po, n, o) ELSE o

\* A teardown that leaves the producer's subscriptions open.
UnsubscribeNoTeardown(ps, j) == ps

\* Subscription.unsubscribe() on the subscription of invocation j: the
\* teardown unsubscribes the producer's subscriptions that are still open.
Unsubscribe(ps, j) ==
    IF j = 0 THEN ps
    ELSE [ps EXCEPT ![j] = [n \in DOMAIN ps[j] |->
                              IF ps[j][n] = "active" THEN "closed" ELSE ps[j][n]]]

PhaseAfterUnsubscribe(ph, j) ==
    IF j # 0 /\ ph[j] = "live" THEN [ph EXCEPT ![j] = "superseded"] ELSE ph

Ev(cb, level, h, i, a, data) ==
    [cb |-> cb, level |-> level, h |-> h, inv |-> i, args |-> a, data |-> data,
     stale |-> nRuns > dispRuns[i]]

\* getObservable(...a) is called when the observable of invocation i is subscribed.
ProducerCall(i, a) ==
    [cb |-> "producer", level |-> "ctrl", h |-> 0, inv |-> i, args |-> a, data |-> Null,
     stale |-> FALSE]

RECURSIVE SuccessSlotEvents(_, _, _, _)
SuccessSlotEvents(slot, i, a, data) ==
    IF slot = <<>> THEN <<>>
    ELSE <<Ev(Head(slot)[2], "inv", Head(slot)[1], i, a, data)>>
           \o SuccessSlotEvents(Tail(slot), i, a, data)

FinallyEvents(h, i, a) ==
    IF h.finally # 0 THEN <<Ev("finally", "inv", h.finally, i, a, Null)>> ELSE <<>>

\* The callbacks of the queued microtask, in the order they are called.
LoadingCalls(h, i, a) ==
    <<Ev("loading", "ctrl", 0, i, a, Null)>>
      \o (IF h.loading # 0 THEN <<Ev("loading", "inv", h.loading, i, a, Null)>> ELSE <<>>)

\* A next handler that calls the callbacks of the handle first.
NextCallsHandleFirst(h, i, a, data) ==
    SuccessSlotEvents(h.success, i, a, data)
      \o <<Ev("success", "ctrl", 0, i, a, data)>>
      \o FinallyEvents(h, i, a)

\* The callbacks of the next handler, in the order they are called.
NextCalls(h, i, a, data) ==
    <<Ev("success", "ctrl", 0, i, a, data)>>
      \o SuccessSlotEvents(h.success, i, a, data)
      \o FinallyEvents(h, i, a)

\* The callbacks of the error handler, in the order they are called.
ErrorCalls(h, i, a, msg) ==
    <<Ev("error", "ctrl", 0, i, a, msg)>>
      \o (IF h.error # 0 THEN <<Ev("error", "inv", h.error, i, a, msg)>> ELSE <<>>)
      \o FinallyEvents(h, i, a)

\* --------------------------------------------------------------------- Init
\* The state after construction, for a controller built with one of the
\* constructors in forks and one of the debounceMs values in debounces.
Constructed(forks, debounces) ==
    /\ impl \in {0, 1}
    /\ fork \in forks
    /\ options \in [track : BOOLEAN, debounceMs : debounces]
    /\ status = "idle"
    /\ error = Null
    /\ currentSub = 0
    /\ switchInner = 0
    /\ currentHandlers = 0
    /\ handlerRecs = [r \in Recs |-> EmptyRec]
    /\ timers = <<>>
    /\ debounce = [armed |-> FALSE, value |-> ArgOf(0), run |-> 0, due |-> 0]
    /\ now = 0
    /\ microtasks = <<>>
    /\ inTurn = FALSE
    /\ turnRuns = {}
    /\ nRuns = 0
    /\ phase = [i \in Runs |-> "none"]
    /\ args = [i \in Runs |-> ArgOf(0)]
    /\ callTime = [i \in Runs |-> 0]
    /\ dispTime = [i \in Runs |-> 0]
    /\ dispRuns = [i \in Runs |-> 0]
    /\ pargs = [i \in Runs |-> ArgOf(0)]
    /\ hcap = [i \in Runs |-> 0]
    /\ psub = [i \in Runs |-> [n \in {"a", "b"} |-> "none"]]
    /\ pout = [i \in Runs |-> [n \in {"a", "b"} |-> NoOut]]
    /\ pending = {}
    /\ lastError = Null
    /\ reg = [i \in Runs |-> [k \in Kinds \cup {"next"} |-> "none"]]
    /\ log = <<>>

\* createSignalAction, with and without debounceMs.
Init == Constructed({FALSE}, {0, DebounceMs})

\* createSignalForkJoinAction, without debounceMs.
InitForkJoin == Constructed({TRUE}, {0})

\* User code may run when it is already running or when the event loop is
\* between tasks (no microtask is waiting).
CanCall == inTurn \/ microtasks = <<>>

\* A task of the event loop may start when no user code runs and the
\* microtask queue is drained.
CanTask == ~inTurn /\ microtasks = <<>>

\* ------------------------------------------------------- executeObservable
\* The handler record an invocation works with: part_000 takes the record
\* currentHandlers refers to when the invocation is dispatched.
CapturedHandlers_000 == currentHandlers

\* part_001 makes a record of its own, on which nothing is ever registered.
CapturedHandlers_001 == 0

\* A controller that reports to the tracker whatever its options say.
TrackedAlways == TRUE

\* options.track !== false: TRUE stands for an option that is true or absent.
Tracked == options.track

\* executeObservable that leaves the status as it finds it.
StatusAtDispatchKept == status

StatusAtDispatch == "loading"

\* executeObservable(...a) for the run call i, followed by the subscription
\* to the observable it returns; ps and ph are the subscriptions and phases
\* left by the unsubscription that precedes it, nr the run calls made so far.
executeObservable(i, a, ps, ph, nr) ==
    /\ status' = StatusAtDispatch
    /\ error' = Null
    /\ pending' = IF Tracked THEN TrackerBegin(pending, i) ELSE pending
    /\ microtasks' = Append(microtasks, i)
    /\ hcap' = [hcap EXCEPT ![i] = IF impl = 0 THEN CapturedHandlers_000
                                              ELSE CapturedHandlers_001]
    /\ pargs' = [pargs EXCEPT ![i] = a]
    /\ phase' = [ph EXCEPT ![i] = "live"]
    /\ dispTime' = [dispTime EXCEPT ![i] = now]
    /\ dispRuns' = [dispRuns EXCEPT ![i] = nr]
    /\ psub' = [ps EXCEPT ![i] = [n \in {"a", "b"} |->
                                    IF n \in SubNames THEN "active" ELSE "none"]]
    /\ log' = Append(log, ProducerCall(i, a))
    /\ UNCHANGED <<lastError, pout>>

\* A window that is not restarted by a value arriving while it is open.
DebounceDueNotRestarted(t) == IF debounce.armed THEN debounce.due ELSE t + options.debounceMs

\* runSubject.next(a) for the run call i, seen by debounceTime: the value it
\* holds is replaced and the window restarts.
DebounceDue(t) == t + options.debounceMs

DebounceNext(d, i, a) ==
    [armed |-> TRUE, value |-> a, run |-> i, due |-> DebounceDue(now)]

\* A run call that shows the loading state before the window has elapsed.
SubjectNextEagerLoading(i, a) ==
    /\ debounce' = DebounceNext(debounce, i, a)
    /\ phase' = [j \in Runs |->
                   IF j = debounce'.run THEN "debouncing"
                   ELSE IF j = i \/ phase[j] = "debouncing" THEN "coalesced"
                   ELSE phase[j]]
    /\ status' = "loading"
    /\ UNCHANGED <<error, pending, lastError, microtasks, hcap, pargs,
                   dispTime, dispRuns, psub, pout, log, currentSub, switchInner>>

SubjectNext(i, a) ==
    /\ debounce' = DebounceNext(debounce, i, a)
    /\ phase' = [j \in Runs |->
                   IF j = debounce'.run THEN "debouncing"
                   ELSE IF j = i \/ phase[j] = "debouncing" THEN "coalesced"
                   ELSE phase[j]]
    /\ UNCHANGED <<status, error, pending, lastError, microtasks, hcap, pargs,
                   dispTime, dispRuns, psub, pout, log, currentSub, switchInner>>

\* ---------------------------------------------------------------------- run
\* part_000: run(...a) replaces currentHandlers by a new record and defers
\* the dispatch with setTimeout(0).
run_000 ==
    /\ impl = 0
    /\ CanCall
    /\ nRuns < MaxRuns
    /\ LET i == nRuns + 1
           a == ArgOf(i) IN
        /\ nRuns' = i
        /\ args' = [args EXCEPT ![i] = a]
        /\ callTime' = [callTime EXCEPT ![i] = now]
        /\ currentHandlers' = i
        /\ handlerRecs' = [handlerRecs EXCEPT ![i] = EmptyRec]
        /\ timers' = Append(timers, i)
        /\ phase' = [phase EXCEPT ![i] = "timer"]
        /\ inTurn' = TRUE
        /\ turnRuns' = turnRuns \cup {i}
    /\ UNCHANGED <<conf, status, error, currentSub, switchInner, debounce, now,
                   microtasks, dispTime, dispRuns, pargs, hcap, psub, pout, trk,
                   reg, log>>

\* The subscription run() unsubscribes before it executes the new invocation.
RunUnsubscribes == currentSub

\* part_001: run(...a) feeds the debounced stream, or unsubscribes currentSub
\* and executes at once; its own handler record is the one of the handle.
run_001 ==
    /\ impl = 1
    /\ CanCall
    /\ nRuns < MaxRuns
    /\ LET i == nRuns + 1
           a == ArgOf(i) IN
        /\ nRuns' = i
        /\ args' = [args EXCEPT ![i] = a]
        /\ callTime' = [callTime EXCEPT ![i] = now]
        /\ inTurn' = TRUE
        /\ turnRuns' = turnRuns \cup {i}
        /\ IF options.debounceMs # 0
           THEN SubjectNext(i, a)
           ELSE /\ executeObservable(i, a, Unsubscribe(psub, RunUnsubscribes),
                                     PhaseAfterUnsubscribe(phase, RunUnsubscribes), i)
                /\ currentSub' = i
                /\ UNCHANGED <<switchInner, debounce>>
    /\ UNCHANGED <<conf, currentHandlers, handlerRecs, timers, now, reg>>

\* part_000: the setTimeout(0) callback of the oldest waiting run call.
TimerFire ==
    /\ CanTask
    /\ timers # <<>>
    /\ LET i == Head(timers) IN
        /\ timers' = Tail(timers)
        /\ IF options.debounceMs # 0
           THEN SubjectNext(i, args[i])
           ELSE /\ executeObservable(i, args[i], Unsubscribe(psub, RunUnsubscribes),
                                     PhaseAfterUnsubscribe(phase, RunUnsubscribes), nRuns)
                /\ currentSub' = i
                /\ UNCHANGED <<switchInner, debounce>>
    /\ UNCHANGED <<conf, currentHandlers, handlerRecs, now, inTurn, turnRuns, nRuns,
                   args, callTime, reg>>

\* debounceTime emits the value it holds when its window has elapsed, and
\* switchMap unsubscribes the inner subscription before subscribing the new one.
DebounceFire ==
    /\ CanTask
    /\ debounce.armed
    /\ now >= debounce.due
    /\ executeObservable(debounce.run, debounce.value, Unsubscribe(psub, switchInner),
                         PhaseAfterUnsubscribe(phase, switchInner), nRuns)
    /\ switchInner' = debounce.run
    /\ debounce' = [debounce EXCEPT !.armed = FALSE]
    /\ UNCHANGED <<conf, currentSub, currentHandlers, handlerRecs, timers, now, inTurn,
                   turnRuns, nRuns, args, callTime, reg>>

\* Time passes, but not past a timer that is due.
Tick ==
    /\ CanTask
    /\ options.debounceMs # 0
    /\ now < MaxTime
    /\ timers = <<>>
    /\ debounce.armed => now < debounce.due
    /\ now' = now + 1
    /\ UNCHANGED <<conf, ctrl, timers, debounce, microtasks, inTurn, turnRuns, invs,
                   trk, reg, log>>

\* ------------------------------------------------------------ the handle
\* The record a method of the handle h writes to: part_000 writes to whatever
\* currentHandlers refers to at the time of the call, part_001 to the record
\* of the run call that returned h.
HandleRecord_000(h) == currentHandlers

HandleRecord_001(h) == h

HandleRecord(h) == IF impl = 0 THEN HandleRecord_000(h) ELSE HandleRecord_001(h)

HowRegistered(h) == IF h \in turnRuns THEN "sync" ELSE "late"

nRegs == Cardinality({hk \in Runs \X (Kinds \cup {"next"}) : reg[hk[1]][hk[2]] # "none"})

Register(h, k, rec) ==
    /\ CanCall
    /\ h <= nRuns
    /\ reg[h][k] = "none"
    /\ nRegs < MaxRegs
    /\ handlerRecs' = [handlerRecs EXCEPT ![HandleRecord(h)] = rec]
    /\ reg' = [reg EXCEPT ![h][k] = HowRegistered(h)]
    /\ inTurn' = TRUE
    /\ UNCHANGED <<conf, status, error, currentSub, switchInner, currentHandlers,
                   timers, debounce, now, microtasks, turnRuns, invs, trk, log>>

onLoading(h) ==
    Register(h, "loading", [handlerRecs[HandleRecord(h)] EXCEPT !.loading = h])

onSuccess(h) ==
    Register(h, "success",
             [handlerRecs[HandleRecord(h)] EXCEPT !.success = <<<<h, "success">>>>])

onError(h) ==
    Register(h, "error", [handlerRecs[HandleRecord(h)] EXCEPT !.error = h])

finally(h) ==
    Register(h, "finally", [handlerRecs[HandleRecord(h)] EXCEPT !.finally = h])

\* continueWith wraps the success callback registered so far.
continueWith(h) ==
    Register(h, "next",
             [handlerRecs[HandleRecord(h)] EXCEPT
                !.success = Append(handlerRecs[HandleRecord(h)].success, <<h, "next">>)])

\* The synchronous user code returns to the event loop.
EndTurn ==
    /\ inTurn
    /\ inTurn' = FALSE
    /\ turnRuns' = {}
    /\ UNCHANGED <<conf, ctrl, timers, debounce, now, microtasks, invs, trk, reg, log>>

\* The microtask queued by executeObservable: the loading notification.
LoadingMicrotask ==
    /\ ~inTurn
    /\ microtasks # <<>>
    /\ LET i == Head(microtasks) IN
        log' = log \o LoadingCalls(handlerRecs[hcap[i]], i, pargs[i])
    /\ microtasks' = Tail(microtasks)
    /\ UNCHANGED <<conf, ctrl, timers, debounce, now, inTurn, turnRuns, invs, trk, reg>>

\* ------------------------------------------------------- the subscriber
AllDone(ps, i) == [ps EXCEPT ![i] = [n \in DOMAIN ps[i] |->
                                       IF ps[i][n] = "none" THEN "none" ELSE "done"]]

StatusOnNext == "success"

StatusOnError == "error"

\* next: data => { ... } of the subscription of invocation i.
NextHandler(i, data) ==
    /\ status' = StatusOnNext
    /\ pending' = IF Tracked THEN TrackerSuccess(pending, i) ELSE pending
    /\ log' = log \o NextCalls(handlerRecs[hcap[i]], i, pargs[i], data)
    /\ phase' = [phase EXCEPT ![i] = "success"]
    /\ psub' = AllDone(psub, i)
    /\ UNCHANGED <<error, lastError>>

\* error: err => { ... } of the subscription of invocation i.
ErrorHandler(i, err) ==
    /\ error' = ErrorMessage(err)
    /\ status' = StatusOnError
    /\ pending' = IF Tracked THEN TrackerError(pending, i) ELSE pending
    /\ lastError' = IF Tracked THEN ErrorMessage(err) ELSE lastError
    /\ log' = log \o ErrorCalls(handlerRecs[hcap[i]], i, pargs[i], ErrorMessage(err))
    /\ phase' = [phase EXCEPT ![i] = "error"]
    /\ psub' = AllDone(psub, i)

\* The producer completes without a value: the subscriber has no complete
\* handler, so nothing is written.
CompleteEmpty(i) ==
    /\ phase' = [phase EXCEPT ![i] = "empty"]
    /\ psub' = AllDone(psub, i)
    /\ UNCHANGED <<status, error, pending, lastError, log>>

\* The sub-producer n of invocation i settles with outcome o.  What it emits
\* reaches the subscriber only through a subscription that is still open.
Settle(i, n, o) ==
    /\ CanTask
    /\ psub[i][n] # "none"
    /\ pout[i][n] = NoOut
    /\ pout' = [pout EXCEPT ![i][n] = IF psub[i][n] = "active" THEN o ELSE Dropped]
    /\ IF psub[i][n] = "active"
       THEN LET r == getObservable(pout'[i], n, o) IN
            CASE r.t = "next" -> NextHandler(i, r.v)
              [] r.t = "error" -> ErrorHandler(i, r.e)
              [] r.t = "complete" -> CompleteEmpty(i)
              [] OTHER -> /\ psub' = [psub EXCEPT ![i][n] = "done"]
                          /\ UNCHANGED <<status, error, pending, lastError, log, phase>>
       ELSE UNCHANGED <<status, error, pending, lastError, log, phase, psub>>
    /\ UNCHANGED <<conf, currentSub, switchInner, currentHandlers, handlerRecs, loop,
                   nRuns, args, callTime, dispTime, dispRuns, pargs, hcap, reg>>

\* --------------------------------------------------------------------- Next
\* The controller as its store uses it: run calls, the event loop and the
\* producers, with the controller-level callbacks of the options.
Next ==
    \/ run_000
    \/ run_001
    \/ EndTurn
    \/ LoadingMicrotask
    \/ TimerFire
    \/ DebounceFire
    \/ Tick
    \/ \E i \in Runs, n \in {"a", "b"} : \E o \in Outcomes(n) : Settle(i, n, o)

Spec == Init /\ [][Next]_vars

\* The same with the methods of the handles run returns.
NextHandle ==
    \/ Next
    \/ \E h \in Runs : onLoading(h)
    \/ \E h \in Runs : onSuccess(h)
    \/ \E h \in Runs : onError(h)
    \/ \E h \in Runs : finally(h)
    \/ \E h \in Runs : continueWith(h)

SpecHandle == Init /\ [][NextHandle]_vars

\* The parallel-result controller, in immediate mode.
NextForkJoin ==
    \/ run_000
    \/ run_001
    \/ EndTurn
    \/ LoadingMicrotask
    \/ TimerFire
    \/ \E i \in Runs, n \in {"a", "b"} : \E o \in Outcomes(n) : Settle(i, n, o)

SpecForkJoin == InitForkJoin /\ [][NextForkJoin]_vars

\* The same under the event loop's scheduling: the caller's turn ends, and
\* queued microtasks and setTimeout callbacks that are ready are run.
SpecForkJoinLive ==
    /\ SpecForkJoin
    /\ WF_vars(EndTurn)
    /\ WF_vars(LoadingMicrotask)
    /\ WF_vars(TimerFire)

\* ------------------------------------------------- failures of every shape
\* The failure values extractErrorMessage tells apart: null, a string, and
\* objects with or without the name HttpErrorResponse whose error is absent,
\* a string, or an object with a string error of its own.
Failures ==
    {Null, Str("boom")}
      \cup [t : {"object"}, name : {"HttpErrorResponse", "Error"},
            top : {"-", "e1"}, nested : {"-"}]
      \cup [t : {"object"}, name : {"HttpErrorResponse", "Error"},
            top : {"-"}, nested : {"e2"}]

\* The producer of invocation i raises the failure value e.
Fail(i, e) == Settle(i, "a", [t |-> "error", e |-> e])

\* The single-producer controller in immediate mode, with producers that fail.
NextFailure ==
    \/ run_000
    \/ run_001
    \/ EndTurn
    \/ LoadingMicrotask
    \/ TimerFire
    \/ \E i \in Runs, e \in Failures : Fail(i, e)

SpecFailure == Constructed({FALSE}, {0}) /\ [][NextFailure]_vars

\* ------------------------------------------------- the tracker on its own
\* GlobalHttpTracker as any code that injects it may call it; log holds the
\* calls made so far.
TrackerIds == 1..MaxIds

TrackerMsgs == {Str("m1"), Str("m2")}

TrackerCall(op, id, msg) == [cb |-> op, id |-> id, msg |-> msg]

tracker_begin(id) ==
    /\ Len(log) < MaxCalls
    /\ pending' = TrackerBegin(pending, id)
    /\ log' = Append(log, TrackerCall("begin", id, Null))
    /\ UNCHANGED <<conf, ctrl, loop, invs, lastError, reg>>

tracker_success(id) ==
    /\ Len(log) < MaxCalls
    /\ pending' = TrackerSuccess(pending, id)
    /\ log' = Append(log, TrackerCall("success", id, Null))
    /\ UNCHANGED <<conf, ctrl, loop, invs, lastError, reg>>

\* An error call that records the message only for an id that is pending.
tracker_errorOnlyWhenPending(id, msg) ==
    /\ Len(log) < MaxCalls
    /\ pending' = TrackerError(pending, id)
    /\ lastError' = IF id \in pending THEN msg ELSE lastError
    /\ log' = Append(log, TrackerCall("error", id, msg))
    /\ UNCHANGED <<conf, ctrl, loop, invs, reg>>

tracker_error(id, msg) ==
    /\ Len(log) < MaxCalls
    /\ pending' = TrackerError(pending, id)
    /\ lastError' = msg
    /\ log' = Append(log, TrackerCall("error", id, msg))
    /\ UNCHANGED <<conf, ctrl, loop, invs, reg>>

tracker_clearError ==
    /\ Len(log) < MaxCalls
    /\ lastError' = Null
    /\ log' = Append(log, TrackerCall("clearError", 0, Null))
    /\ UNCHANGED <<conf, ctrl, loop, invs, pending, reg>>

NextTracker ==
    \/ \E id \in TrackerIds : tracker_begin(id)
    \/ \E id \in TrackerIds : tracker_success(id)
    \/ \E id \in TrackerIds, msg \in TrackerMsgs : tracker_error(id, msg)
    \/ tracker_clearError

SpecTracker == Constructed({FALSE}, {0}) /\ [][NextTracker]_vars

\* =================================================================== claims
Dispatched(i) == phase[i] \in {"live", "success", "error", "empty", "superseded"}

\* Invocations are dispatched in the order of their run calls, so the most
\* recently dispatched one is the dispatched one with the highest index.
LastDispatched ==
    IF \E i \in Runs : Dispatched(i)
    THEN CHOOSE i \in Runs : Dispatched(i) /\ \A j \in Runs : Dispatched(j) => j <= i
    ELSE 0

Events == {log[k] : k \in 1..Len(log)}

\* C1: once run has been called while an invocation was outstanding, none of
\* that invocation's success, error or finally callbacks is invoked any more
\* (an event is stale when a run call was made after its invocation was
\* dispatched and before the callback was invoked).
C1_NoCallbackAfterLaterRun ==
    \A e \in Events : e.cb \in {"success", "error", "finally"} => ~e.stale

\* C2: status, error and the tracker are only written by the dispatch of an
\* invocation or by the settling of the most recently dispatched one; the
\* settling of a superseded invocation changes none of them.
C2_OnlyLatestDispatchedWrites ==
    [][(status' # status \/ error' # error \/ pending' # pending
          \/ lastError' # lastError)
        => \/ LastDispatched' # LastDispatched
           \/ /\ LastDispatched # 0
              /\ phase'[LastDispatched] # phase[LastDispatched]
              /\ pout'[LastDispatched] # pout[LastDispatched]]_vars

C2_Witness ==
    \E i \in Runs : phase[i] = "superseded" /\ pout[i]["a"] = Dropped

\* C3: while the most recently dispatched invocation is outstanding status is
\* loading; once its producer has yielded a value status is success, once it
\* has failed status is error, until another invocation is dispatched.
C3_StatusFollowsLiveInvocation ==
    LET L == LastDispatched IN
    L # 0 =>
        /\ pout[L]["a"].t = "none" => status = "loading"
        /\ pout[L]["a"].t = "next" => status = "success"
        /\ pout[L]["a"].t = "error" => status = "error"

C3_Witness ==
    /\ LastDispatched = 2
    /\ pout[1]["a"].t = "next"
    /\ pout[2]["a"].t = "error"
    /\ status = "error"

\* C4: pendingCount is the number of tracked invocations that were dispatched
\* and are still outstanding (an invocation whose producer completed without
\* a value is counted as outstanding here).
C4_PendingCountIsOutstanding ==
    pendingCount = Cardinality({i \in Runs : options.track
                                              /\ phase[i] \in {"live", "empty"}})

Called(i) == phase[i] # "none"

EventsAt(K) == {k \in 1..Len(log) : log[k].cb \in K}

\* C5: with debounceMs set, a call followed by another call less than
\* debounceMs later never reaches the producer; a call that is dispatched is
\* dispatched once, debounceMs after it was made, with its own arguments; a
\* call waits no longer than debounceMs, and it is dropped only for a later
\* call.  (The clock counts whole ticks: calls exactly debounceMs ticks apart
\* may fall on either side.)
C5_DebounceDispatchesLastCall ==
    options.debounceMs # 0 =>
      \A i \in Runs :
        LET P == {k \in EventsAt({"producer"}) : log[k].inv = i} IN
        /\ Dispatched(i) =>
             /\ Cardinality(P) = 1
             /\ \A k \in P : log[k].args = args[i]
             /\ dispTime[i] = callTime[i] + options.debounceMs
             /\ \A j \in Runs : j > i /\ Called(j)
                                  => callTime[j] - callTime[i] >= options.debounceMs
        /\ ~Dispatched(i) => P = {}
        /\ phase[i] \in {"timer", "debouncing"} => now <= callTime[i] + options.debounceMs
        /\ phase[i] = "coalesced" =>
             \E j \in Runs : j > i /\ Called(j)
                               /\ callTime[j] - callTime[i] <= options.debounceMs

C5_Witness ==
    /\ options.debounceMs # 0
    /\ phase[1] = "coalesced"
    /\ Dispatched(2)
    /\ callTime[2] > callTime[1]

\* C6: a run call on a debounced controller, and its replacement by a later
\* call before the window has elapsed, write none of status, error, the
\* pending set and the last error.
C6_UndispatchedCallWritesNothing ==
    [][(options.debounceMs # 0
         /\ \E i \in Runs : /\ phase'[i] # phase[i]
                            /\ phase'[i] \in {"timer", "debouncing", "coalesced"})
        => UNCHANGED <<status, error, pending, lastError>>]_vars

C6_Witness ==
    /\ options.debounceMs # 0
    /\ phase[1] = "coalesced"
    /\ phase[2] = "debouncing"
    /\ status = "idle"
    /\ pending = {}

\* C7: for an invocation whose producer settled while it was live, either
\* success callbacks or error callbacks were invoked, not both, and a finally
\* callback registered on its handle in the turn of the run call was invoked
\* exactly once, after them.
C7_OneOutcomeThenFinally ==
    \A i \in Runs : phase[i] \in {"success", "error"} =>
        LET S == {k \in EventsAt({"success"}) : log[k].inv = i}
            E == {k \in EventsAt({"error"}) : log[k].inv = i}
            F == {k \in EventsAt({"finally"}) : log[k].h = i}
        IN /\ (S = {}) # (E = {})
           /\ reg[i]["finally"] = "sync" =>
                /\ Cardinality(F) = 1
                /\ \A f \in F : \A k \in S \cup E : k < f

\* C8: callbacks registered on the handle in the turn of the run call belong
\* to that invocation: its onLoading callback is invoked with the arguments
\* of the call once the loading notification has run, before the success or
\* error callbacks, and its onSuccess (onError) callback is invoked when the
\* producer yields a value (fails).
C8_SyncRegisteredCallbacksAttached ==
    \A i \in Runs :
        LET Own(K) == {k \in EventsAt(K) : log[k].inv = i /\ log[k].level = "inv"
                                             /\ log[k].h = i}
            Notified == Dispatched(i) /\ \A m \in 1..Len(microtasks) : microtasks[m] # i
        IN /\ reg[i]["loading"] = "sync" /\ Notified =>
                /\ Own({"loading"}) # {}
                /\ \A k \in Own({"loading"}) : log[k].args = args[i]
                /\ \A k \in Own({"loading"}) :
                     \A m \in EventsAt({"success", "error"}) : log[m].inv = i => k < m
           /\ reg[i]["success"] = "sync" /\ phase[i] = "success" => Own({"success"}) # {}
           /\ reg[i]["error"] = "sync" /\ phase[i] = "error" => Own({"error"}) # {}

\* C9: a callback of a handle is invoked for an event of an invocation only
\* after the controller-level callback for that event of that invocation.
C9_ControllerLevelFirst ==
    \A k \in 1..Len(log) :
        log[k].level = "inv" /\ log[k].cb \in {"loading", "success", "error"} =>
            /\ \E m \in 1..(k - 1) : /\ log[m].level = "ctrl"
                                    /\ log[m].cb = log[k].cb
                                    /\ log[m].inv = log[k].inv
            /\ \A m \in 1..(k - 1) :
                 log[m].level = "inv" /\ log[m].cb = log[k].cb /\ log[m].inv = log[k].inv
                   => \E c \in 1..(m - 1) : /\ log[c].level = "ctrl"
                                           /\ log[c].cb = log[k].cb
                                           /\ log[c].inv = log[k].inv

C9_Witness ==
    \E k \in 1..Len(log) : log[k].level = "inv" /\ log[k].cb = "success"

C11_SuccessThenContinuation ==
    \A i \in Runs :
        /\ reg[i]["success"] = "sync"
        /\ reg[i]["next"] = "sync"
        /\ \E r \in Recs : handlerRecs[r].success = <<<<i, "success">>, <<i, "next">>>>
        /\ phase[i] = "success"
        => \E c, s, n \in 1..Len(log) :
             /\ c < s /\ s < n
             /\ log[c].cb = "success" /\ log[c].level = "ctrl" /\ log[c].inv = i
             /\ log[s].cb = "success" /\ log[s].level = "inv" /\ log[s].h = i
             /\ log[n].cb = "next" /\ log[n].level = "inv" /\ log[n].h = i
             /\ \A k \in {s, n} : /\ log[k].inv = i
                                  /\ log[k].args = args[i]
                                  /\ log[k].data = pout[i]["a"].v

\* C12: when the producer of an invocation has failed while the invocation
\* was live, the controller-level onError was invoked, every error callback
\* of the invocation got one and the same message, that message is a string,
\* and until another invocation is dispatched status is error, the error
\* signal holds the message and, when the controller is tracked, so does the
\* tracker's lastError.
C12_OneNormalizedMessage ==
    \A i \in Runs : phase[i] = "error" =>
        LET E == {k \in EventsAt({"error"}) : log[k].inv = i} IN
        /\ \E k \in E : log[k].level = "ctrl"
        /\ \A k \in E : log[k].data.t = "string"
        /\ \A k, m \in E : log[k].data = log[m].data
        /\ i = LastDispatched =>
             /\ status = "error"
             /\ \A k \in E : /\ error = log[k].data
                             /\ Tracked => lastError = log[k].data

\* C13: in every reachable state status is one of idle, loading, success
\* and error, and it is idle as long as nothing was dispatched; at most one
\* of isLoading, isSuccess and isError is true, and each of them is true
\* exactly when status has the value it is named after.
C13_StatusAndFlags ==
    /\ status \in {"idle", "loading", "success", "error"}
    /\ LastDispatched = 0 => status = "idle"
    /\ Cardinality({f \in {"loading", "success", "error"} :
                      \/ f = "loading" /\ isLoading
                      \/ f = "success" /\ isSuccess
                      \/ f = "error" /\ isError}) <= 1
    /\ isLoading <=> status = "loading"
    /\ isSuccess <=> status = "success"
    /\ isError <=> status = "error"

C13_Witness ==
    /\ isError /\ ~isLoading /\ ~isSuccess
    /\ \E i \in Runs : phase[i] = "success"
    /\ \E i \in Runs : phase[i] = "error" /\ i = LastDispatched

\* The most recent of the begin, success and error calls made for id.
LastOpOn(id) ==
    LET K == {k \in 1..Len(log) : log[k].cb \in {"begin", "success", "error"}
                                    /\ log[k].id = id}
    IN IF K = {} THEN "none"
       ELSE log[CHOOSE k \in K : \A m \in K : m <= k].cb

\* C14: after any sequence of tracker calls the pending set holds exactly
\* the ids whose most recent begin, success or error call was begin,
\* pendingCount is the number of those ids and isAnyLoading is true exactly
\* when there is one (so a repeated begin counts once, and one success or
\* error removes an id however many times it was begun).
C14_PendingIsBegunNotEnded ==
    LET B == {id \in TrackerIds : LastOpOn(id) = "begin"} IN
    /\ pending = B
    /\ pendingCount = Cardinality(B)
    /\ isAnyLoading <=> B # {}

C14_Witness ==
    \E id \in TrackerIds :
        /\ Len(log) >= 3
        /\ \A k \in {Len(log) - 2, Len(log) - 1} : log[k].cb = "begin" /\ log[k].id = id
        /\ log[Len(log)].cb \in {"success", "error"}
        /\ log[Len(log)].id = id
        /\ pendingCount = 0

\* The call a step of the tracker makes.
CallMade == log'[Len(log')]

\* C15: a success(id) or error(id, msg) call for an id that is not in the
\* pending set leaves the pending set (and with it pendingCount and
\* isAnyLoading) and lastError as they were.
C15_NotPendingIsNoOp ==
    [][(/\ Len(log') = Len(log) + 1
        /\ CallMade.cb \in {"success", "error"}
        /\ CallMade.id \notin pending)
       => UNCHANGED <<pending, lastError>>]_vars

\* C16: lastError is empty as long as neither error nor clearError was
\* called; otherwise it is the message of the most recent error call when no
\* clearError call followed it, and empty when one did, whatever the pending
\* set holds.  begin and success leave lastError as it was, and clearError
\* leaves the pending set as it was.
C16_LastErrorIsLatestMessage ==
    /\ [](LET K == {k \in 1..Len(log) : log[k].cb \in {"error", "clearError"}} IN
          IF K = {} THEN lastError = Null
          ELSE LET k == CHOOSE k \in K : \A m \in K : m <= k IN
               lastError = IF log[k].cb = "error" THEN log[k].msg ELSE Null)
    /\ [][Len(log') = Len(log) + 1 =>
            /\ CallMade.cb \in {"begin", "success"} => lastError' = lastError
            /\ CallMade.cb = "clearError" => pending' = pending /\ lastError' = Null]_vars

C16_Witness ==
    /\ Len(log) >= 3
    /\ log[Len(log)].cb = "clearError"
    /\ \E k \in 1..(Len(log) - 1) : log[k].cb = "error"
    /\ pending # {}
    /\ lastError = Null

\* C17: a controller created with track: false never changes the tracker's
\* pending set or lastError, whatever is run, dispatched, settled or
\* superseded; on a controller created without the track option the
\* dispatch of an invocation adds an id to the pending set that was not in it
\* and that no other invocation uses.
C17_TrackOptionDecides ==
    /\ [](~options.track => pending = {} /\ lastError = Null)
    /\ [][\A i \in Runs : ~Dispatched(i) /\ Dispatched(i)' =>
            IF options.track
            THEN i \notin pending /\ pending' = pending \cup {i}
            ELSE UNCHANGED <<pending, lastError>>]_vars

C17_Witness ==
    /\ ~options.track
    /\ phase[1] = "superseded"
    /\ phase[2] = "error"
    /\ pending = {}
    /\ lastError = Null

\* C18: each callback registered on a handle (with onLoading, onSuccess,
\* onError or finally) is invoked at most once over the whole execution.
C18_HandleCallbackAtMostOnce ==
    \A h \in Runs, cb \in Kinds :
        Cardinality({k \in 1..Len(log) : /\ log[k].level = "inv"
                                          /\ log[k].h = h
                                          /\ log[k].cb = cb}) <= 1

\* C19: at most one invocation of the controller has a producer subscription
\* that is open, in immediate and in debounced mode: when an invocation is
\* dispatched, the subscription of the one dispatched before it has been
\* closed.
C19_OneLiveSubscription ==
    /\ Cardinality({i \in Runs : \E n \in SubNames : psub[i][n] = "active"}) <= 1
    /\ \A i \in Runs : (\E n \in SubNames : psub[i][n] = "active") => i = LastDispatched

C19_Witness ==
    /\ options.debounceMs # 0
    /\ phase[1] = "superseded"
    /\ psub[1]["a"] = "closed"
    /\ psub[2]["a"] = "active"

\* C20: the message made of a failure value is always a string; for an HTTP
\* failure it is the nested error string of the error body when there is
\* one, else the top-level error string when there is one (else a fallback
\* of the implementation's choice).
C20_ThreeTierMessage ==
    \A k \in EventsAt({"error"}) :
        LET f == pout[log[k].inv]["a"].e
            m == log[k].data
            http == f.t = "object" /\ f.name = "HttpErrorResponse"
        IN /\ m.t = "string"
           /\ http /\ f.nested # "-" => m = Str(f.nested)
           /\ http /\ f.nested = "-" /\ f.top # "-" => m = Str(f.top)

\* C21: a callback registered through the handle of a run call is only ever
\* invoked for the invocation of that run call, with the arguments of that
\* call, also when it was registered after a later run call.
C21_HandleIsolation ==
    \A k \in 1..Len(log) :
        log[k].level = "inv" => /\ log[k].inv = log[k].h
                                /\ log[k].args = args[log[k].h]

\* C22: an invocation whose producer has terminated while it was live (it
\* yielded its value, failed, or completed without a value) eventually has
\* its id out of the tracker's pending set, and status is eventually not
\* loading on its account (it is not loading, or a later invocation was
\* dispatched).
C22_TerminatedLeavesLoading ==
    \A i \in Runs :
        (phase[i] \in {"success", "error", "empty"})
          ~> (i \notin pending /\ (i = LastDispatched => status # "loading"))

\* C23: when onSuccess(cb) and continueWith(nextFn) were both registered on
\* the handle of a run call in the turn of that call, in either order, and
\* the invocation has succeeded, cb and nextFn have both been invoked for it.
C23_ContinuationInEitherOrder ==
    \A i \in Runs :
        /\ reg[i]["success"] = "sync"
        /\ reg[i]["next"] = "sync"
        /\ phase[i] = "success"
        => \E s, n \in 1..Len(log) :
             /\ log[s].cb = "success" /\ log[s].level = "inv" /\ log[s].h = i
             /\ log[n].cb = "next" /\ log[n].level = "inv" /\ log[n].h = i
             /\ log[s].inv = i /\ log[n].inv = i

====
